---- MODULE Spec2Model ----
(***************************************************************************)
(* Model of streamlit_app.py: the HeartDiseasePredictor risk engine, the   *)
(* sidebar form that feeds it, and the classification and age-risk curve   *)
(* rendered by main.                                                       *)
(*                                                                         *)
(* Python floats are IEEE-754 binary64.  Every float the program computes  *)
(* here is 0 or lies in [2^-5, 2), so it is an integer multiple of 2^-57.  *)
(* A float is modelled exactly as the pair <<hi, lo>> standing for         *)
(* (hi * 2^30 + lo) * 2^-57, and every arithmetic operation rounds to the  *)
(* nearest representable value, ties to even, as the hardware does.        *)
(***************************************************************************)
EXTENDS Integers, Sequences, FiniteSets

VARIABLES widgets, input_data, assess_clicked, predictor, risk_score, band,
          lifestyle, base_risk, calls

vars == <<widgets, input_data, assess_clicked, predictor, risk_score, band,
          lifestyle, base_risk, calls>>

(***************************************************************************)
(* binary64 arithmetic                                                     *)
(***************************************************************************)
Base == 2^30

Zero == <<0, 0>>

FLess(a, b) == a[1] < b[1] \/ (a[1] = b[1] /\ a[2] < b[2])

FLeq(a, b) == ~FLess(b, a)

\* log2 of the unit in the last place, in units of 2^-57, of a value whose
\* high limb is hi: 52 fraction bits below the leading bit.
UlpExp(hi) ==
    IF hi >= 2^27 THEN 5
    ELSE IF hi >= 2^26 THEN 4
    ELSE IF hi >= 2^25 THEN 3
    ELSE IF hi >= 2^24 THEN 2
    ELSE IF hi >= 2^23 THEN 1
    ELSE 0

\* Round the exact value (m + halfbit/2 + something in (0, 1/2) if sticky),
\* in units of 2^-57, to the nearest binary64, ties to even.
RoundNearestEven(m, halfbit, sticky) ==
    LET u    == 2^UlpExp(m[1])
        rem  == m[2] % u
        kept == m[2] - rem
        odd  == (kept \div u) % 2 = 1
        below == halfbit = 1 \/ sticky
        up   == IF u = 1
                THEN halfbit = 1 /\ (sticky \/ odd)
                ELSE \/ 2 * rem > u
                     \/ 2 * rem = u /\ (below \/ odd)
        lo   == IF up THEN kept + u ELSE kept
    IN  IF lo = Base THEN <<m[1] + 1, 0>> ELSE <<m[1], lo>>

\* a + b on floats
FAdd(a, b) ==
    LET s == a[2] + b[2]
    IN  RoundNearestEven(<<a[1] + b[1] + (s \div Base), s % Base>>, 0, FALSE)

\* Long division of r/den, r < den < 2^20: the quotient digits, shifts[i]
\* bits each, followed by the last remainder.
RECURSIVE LongDivision(_, _, _)
LongDivision(r, den, shifts) ==
    IF shifts = <<>> THEN <<r>>
    ELSE <<(r * 2^Head(shifts)) \div den>>
         \o LongDivision((r * 2^Head(shifts)) % den, den, Tail(shifts))

\* num/den for 0 <= num < den < 2^20, cut at 2^-57: q is the floor of
\* num/den in units of 2^-57, half the next bit, sticky whether anything is
\* left below that.
Quotient(num, den) ==
    LET d == LongDivision(num, den, <<10, 10, 10, 10, 10, 7, 1>>)
    IN  [q |-> <<d[1] * 2^17 + d[2] * 2^7 + (d[3] \div 8),
                 (d[3] % 8) * 2^27 + d[4] * 2^17 + d[5] * 2^7 + d[6]>>,
         half |-> d[7],
         sticky |-> d[8] # 0]

\* The binary64 nearest to the rational num/den: what a decimal literal
\* denotes, and what int / int returns.
TrueDiv(num, den) ==
    LET d == Quotient(num, den)
    IN  RoundNearestEven(d.q, d.half, d.sticky)

\* The six base-2^10 digits of a float's integer representation.
Limbs(a) ==
    <<a[2] % 1024, (a[2] \div 1024) % 1024, a[2] \div (1024 * 1024),
      a[1] % 1024, (a[1] \div 1024) % 1024, a[1] \div (1024 * 1024)>>

RECURSIVE ColumnSum(_, _, _, _)
ColumnSum(x, y, k, i) ==
    IF i > 6 THEN 0
    ELSE (IF k - i + 1 \in 1..6 THEN x[i] * y[k - i + 1] ELSE 0)
         + ColumnSum(x, y, k, i + 1)

\* Digits 1..12 (base 2^10) of the exact product of two digit strings.
RECURSIVE ProductDigits(_, _, _, _)
ProductDigits(x, y, k, carry) ==
    IF k > 12 THEN <<>>
    ELSE LET c == ColumnSum(x, y, k, 1) + carry
         IN  <<c % 1024>> \o ProductDigits(x, y, k + 1, c \div 1024)

\* a * b on floats: the exact 2^-114-unit product cut at 2^-57 and rounded.
FMul(a, b) ==
    LET p == ProductDigits(Limbs(a), Limbs(b), 1, 0)
        t == [i \in 0..6 |-> p[i + 6]]
        lo == (t[0] \div 128) + t[1] * 8 + t[2] * 2^13 + (t[3] % 128) * 2^23
        hi == (t[3] \div 128) + t[4] * 8 + t[5] * 2^13 + t[6] * 2^23
        sticky == \/ t[0] % 64 # 0
                  \/ \E i \in 1..5 : p[i] # 0
    IN  RoundNearestEven(<<hi, lo>>, (t[0] \div 64) % 2, sticky)

FMin(a, b) == IF FLess(b, a) THEN b ELSE a

FMax(a, b) == IF FLess(a, b) THEN b ELSE a

(***************************************************************************)
(* Float literals of the source                                            *)
(***************************************************************************)
Lit005 == TrueDiv(5, 100)

Lit01 == TrueDiv(1, 10)

Lit015 == TrueDiv(15, 100)

Lit03 == TrueDiv(3, 10)

Lit05 == TrueDiv(5, 10)

Lit06 == TrueDiv(6, 10)

Lit07 == TrueDiv(7, 10)

Lit095 == TrueDiv(95, 100)

(***************************************************************************)
(* HeartDiseasePredictor                                                   *)
(***************************************************************************)
\* age_factor with the two weights exchanged
age_factor_swapped(x) ==
    IF x > 55 THEN Lit01 ELSE (IF x > 45 THEN Lit015 ELSE Zero)

\* The lambdas bound in self.risk_factors, one operator per lambda.
age_factor(x) == IF x > 55 THEN Lit015 ELSE (IF x > 45 THEN Lit01 ELSE Zero)

\* blood_pressure_factor with >= for > at the upper threshold
blood_pressure_factor_inclusive(x) ==
    IF x >= 140 THEN Lit015 ELSE (IF x > 130 THEN Lit01 ELSE Zero)

blood_pressure_factor(x) ==
    IF x > 140 THEN Lit015 ELSE (IF x > 130 THEN Lit01 ELSE Zero)

cholesterol_factor(x) ==
    IF x > 240 THEN Lit015 ELSE (IF x > 200 THEN Lit01 ELSE Zero)

chest_pain_factor(x) == IF x \in {2, 3} THEN Lit01 ELSE Zero

diabetes_factor(x) == IF x THEN Lit01 ELSE Zero

exercise_angina_factor(x) == IF x THEN Lit01 ELSE Zero

\* x is the slider value in tenths of a millimetre: x > 1.0
st_depression_factor(x) == IF x > 10 THEN Lit01 ELSE Zero

vessels_factor(x) == IF x > 0 THEN Lit01 ELSE Zero

thalassemia_factor(x) == IF x \in {1, 2} THEN Lit01 ELSE Zero

\* Calling the function object fn with argument x.
Call(fn, x) ==
    CASE fn = "age_factor" -> age_factor(x)
      [] fn = "blood_pressure_factor" -> blood_pressure_factor(x)
      [] fn = "cholesterol_factor" -> cholesterol_factor(x)
      [] fn = "chest_pain_factor" -> chest_pain_factor(x)
      [] fn = "diabetes_factor" -> diabetes_factor(x)
      [] fn = "exercise_angina_factor" -> exercise_angina_factor(x)
      [] fn = "st_depression_factor" -> st_depression_factor(x)
      [] fn = "vessels_factor" -> vessels_factor(x)
      [] fn = "thalassemia_factor" -> thalassemia_factor(x)

\* HeartDiseasePredictor.__init__: the instance, its dict of function objects.
HeartDiseasePredictor ==
    [risk_factors |->
        [age             |-> "age_factor",
         blood_pressure  |-> "blood_pressure_factor",
         cholesterol     |-> "cholesterol_factor",
         chest_pain      |-> "chest_pain_factor",
         diabetes        |-> "diabetes_factor",
         exercise_angina |-> "exercise_angina_factor",
         st_depression   |-> "st_depression_factor",
         vessels         |-> "vessels_factor",
         thalassemia     |-> "thalassemia_factor"]]

\* heart_rate_adjustment with >= for > at the upper threshold
heart_rate_adjustment_inclusive(heart_rate) ==
    IF heart_rate < 120 THEN Lit01
    ELSE IF heart_rate >= 180 THEN Lit005
    ELSE Zero

\* The adjustment for maximum heart rate (the if / elif of calculate_risk).
heart_rate_adjustment(heart_rate) ==
    IF heart_rate < 120 THEN Lit01
    ELSE IF heart_rate > 180 THEN Lit005
    ELSE Zero

\* The value risk_score starts from.
risk_score_start == Zero

\* cap that returns the sum as it is
cap_missing(risk) == risk

\* The cap applied to the returned value.
cap(risk) == FMin(Lit095, risk)

\* risk_score += term, for each term in turn.
RECURSIVE Accumulate(_, _)
Accumulate(risk, terms) ==
    IF terms = <<>> THEN risk
    ELSE Accumulate(FAdd(risk, Head(terms)), Tail(terms))

\* calculate_risk with the heart-rate adjustment made before the factors
calculate_risk_reordered(self, age, bp, cholesterol, heart_rate, chest_pain, diabetes, exercise_angina, st_depression, vessels, thalassemia) ==
    cap(Accumulate(risk_score_start,
        <<heart_rate_adjustment(heart_rate),
          Call(self.risk_factors.age, age),
          Call(self.risk_factors.blood_pressure, bp),
          Call(self.risk_factors.cholesterol, cholesterol),
          Call(self.risk_factors.chest_pain, chest_pain),
          Call(self.risk_factors.diabetes, diabetes),
          Call(self.risk_factors.exercise_angina, exercise_angina),
          Call(self.risk_factors.st_depression, st_depression),
          Call(self.risk_factors.vessels, vessels),
          Call(self.risk_factors.thalassemia, thalassemia)>>))

\* calculate_risk: the returned float.
calculate_risk(self, age, bp, cholesterol, heart_rate, chest_pain, diabetes, exercise_angina, st_depression, vessels, thalassemia) ==
    cap(Accumulate(risk_score_start,
        <<Call(self.risk_factors.age, age),
          Call(self.risk_factors.blood_pressure, bp),
          Call(self.risk_factors.cholesterol, cholesterol),
          Call(self.risk_factors.chest_pain, chest_pain),
          Call(self.risk_factors.diabetes, diabetes),
          Call(self.risk_factors.exercise_angina, exercise_angina),
          Call(self.risk_factors.st_depression, st_depression),
          Call(self.risk_factors.vessels, vessels),
          Call(self.risk_factors.thalassemia, thalassemia),
          heart_rate_adjustment(heart_rate)>>))

\* calculate_risk that rebinds an entry of the dict while it runs
calculate_risk_self_rebinding(self) ==
    [self EXCEPT !.risk_factors.age = self.risk_factors.blood_pressure]

\* calculate_risk: the instance it leaves behind (it assigns nothing on self).
calculate_risk_self(self) == self

(***************************************************************************)
(* The sidebar form                                                        *)
(***************************************************************************)
ChestPainOptions ==
    <<"Typical Angina", "Atypical Angina", "Non-anginal Pain", "Asymptomatic">>

ThalassemiaOptions == <<"Normal", "Fixed Defect", "Reversible Defect">>

\* The ranges of the sliders.
AgeDomain == 20..100

BloodPressureDomain == 80..200

CholesterolDomain == 100..600

MaxHeartRateDomain == 60..220

\* ST depression in tenths: the slider steps by 0.1 from 0.0 to 6.0
StDepressionDomain == 0..60

MajorVesselsDomain == 0..3

\* The slider positions of the slider session: the ends of each range, the
\* default, both sides of every threshold the program compares the value
\* with, and a value inside each tier.
AgeValues == {20, 45, 46, 50, 55, 56, 100}

BloodPressureValues == {80, 120, 130, 131, 135, 140, 141, 200}

CholesterolValues == {100, 200, 201, 210, 240, 241, 600}

MaxHeartRateValues == {60, 119, 120, 140, 150, 180, 181, 220}

\* The slider positions of the full session: the default and one value of
\* each tier (the whole form multiplies out).
AgeTiers == {45, 50, 56}

BloodPressureTiers == {120, 131, 141}

CholesterolTiers == {200, 201, 241}

MaxHeartRateTiers == {119, 150, 181}

StDepressionTiers == {10, 11}

MajorVesselsTiers == {0, 1}

\* The widget values of a first run: each widget's default.
DefaultWidgets ==
    [age |-> 50, blood_pressure |-> 120, cholesterol |-> 200,
     max_heart_rate |-> 150, st_depression |-> 10,
     chest_pain |-> ChestPainOptions[1], fasting_blood_sugar |-> FALSE,
     exercise_angina |-> FALSE, major_vessels |-> 0,
     thalassemia |-> ThalassemiaOptions[1]]

chest_pain_map ==
    [l \in {ChestPainOptions[i] : i \in 1..4} |->
        CASE l = "Typical Angina" -> 0
          [] l = "Atypical Angina" -> 1
          [] l = "Non-anginal Pain" -> 2
          [] l = "Asymptomatic" -> 3]

thalassemia_map ==
    [l \in {ThalassemiaOptions[i] : i \in 1..3} |->
        CASE l = "Normal" -> 0
          [] l = "Fixed Defect" -> 1
          [] l = "Reversible Defect" -> 2]

\* create_clinical_inputs: the dict built from the widget values w.  (The
\* 'sex' entry is left out: nothing reads it but the data summary.)
create_clinical_inputs(w) ==
    [age             |-> w.age,
     blood_pressure  |-> w.blood_pressure,
     cholesterol     |-> w.cholesterol,
     max_heart_rate  |-> w.max_heart_rate,
     chest_pain      |-> chest_pain_map[w.chest_pain],
     diabetes        |-> w.fasting_blood_sugar,
     exercise_angina |-> w.exercise_angina,
     st_depression   |-> w.st_depression,
     vessels         |-> w.major_vessels,
     thalassemia     |-> thalassemia_map[w.thalassemia]]

(***************************************************************************)
(* main                                                                    *)
(***************************************************************************)
NoScore == <<>>

\* The call of predictor.calculate_risk in main.
assess(self, d) ==
    calculate_risk(self, d.age, d.blood_pressure, d.cholesterol,
                   d.max_heart_rate, d.chest_pain, d.diabetes,
                   d.exercise_angina, d.st_depression, d.vessels,
                   d.thalassemia)

\* classification with the 0.5 of display_recommendations for 0.7
classification_half(score) ==
    IF FLess(Lit05, score) THEN "HIGH"
    ELSE IF FLess(Lit03, score) THEN "MODERATE"
    ELSE "LOW"

\* The clinical risk classification shown for a score.
classification(score) ==
    IF FLess(Lit07, score) THEN "HIGH"
    ELSE IF FLess(Lit03, score) THEN "MODERATE"
    ELSE "LOW"

\* display_recommendations: the lifestyle list shown for a score.
display_recommendations(score) ==
    IF FLess(Lit05, score) THEN "immediate"
    ELSE IF FLess(Lit03, score) THEN "follow-up"
    ELSE "routine"

\* np.arange(start, stop, step) for integers, step > 0
arange(start, stop, step) ==
    [i \in 1..((stop - start + step - 1) \div step) |-> start + (i - 1) * step]

ages == arange(20, 80, 5)

\* age_risk with min for max
age_risk_min(age) == FMin(Lit005, FMul(TrueDiv(age - 20, 60), Lit06))

\* The age-risk curve of the Clinical Analysis tab.
age_risk(age) == FMax(Lit005, FMul(TrueDiv(age - 20, 60), Lit06))

base_risk_curve == [i \in DOMAIN ages |-> age_risk(ages[i])]

(***************************************************************************)
(* The session: one script run per interaction                             *)
(***************************************************************************)
MaxCalls == 2

\* One run of main with widget values w; clicked says whether the run was
\* caused by the "Calculate Cardiovascular Risk" button.  main builds its
\* predictor anew in every run; the model keeps one instance for the whole
\* session and counts the calls made on it, so that what a call leaves on
\* the instance is carried into the next call instead of being discarded.
Run(w, clicked) ==
    /\ widgets' = w
    /\ input_data' = create_clinical_inputs(w)
    /\ assess_clicked' = clicked
    /\ base_risk' = base_risk_curve
    /\ IF clicked
       THEN /\ risk_score' = assess(predictor, create_clinical_inputs(w))
            /\ band' = classification(risk_score')
            /\ lifestyle' = display_recommendations(risk_score')
            /\ predictor' = calculate_risk_self(predictor)
            /\ calls' = calls + 1
       ELSE /\ risk_score' = NoScore
            /\ band' = "NONE"
            /\ lifestyle' = "NONE"
            /\ UNCHANGED <<predictor, calls>>

Init ==
    /\ widgets = DefaultWidgets
    /\ input_data = create_clinical_inputs(DefaultWidgets)
    /\ assess_clicked = FALSE
    /\ predictor = HeartDiseasePredictor
    /\ risk_score = NoScore
    /\ band = "NONE"
    /\ lifestyle = "NONE"
    /\ base_risk = base_risk_curve
    /\ calls = 0

SetAge(values) ==
    \E v \in values \ {widgets.age} :
        Run([widgets EXCEPT !.age = v], FALSE)

SetBloodPressure(values) ==
    \E v \in values \ {widgets.blood_pressure} :
        Run([widgets EXCEPT !.blood_pressure = v], FALSE)

SetCholesterol(values) ==
    \E v \in values \ {widgets.cholesterol} :
        Run([widgets EXCEPT !.cholesterol = v], FALSE)

SetMaxHeartRate(values) ==
    \E v \in values \ {widgets.max_heart_rate} :
        Run([widgets EXCEPT !.max_heart_rate = v], FALSE)

SetStDepression(values) ==
    \E v \in values \ {widgets.st_depression} :
        Run([widgets EXCEPT !.st_depression = v], FALSE)

SetChestPain ==
    \E i \in 1..4 :
        /\ ChestPainOptions[i] # widgets.chest_pain
        /\ Run([widgets EXCEPT !.chest_pain = ChestPainOptions[i]], FALSE)

SetFastingBloodSugar ==
    Run([widgets EXCEPT !.fasting_blood_sugar = ~@], FALSE)

SetExerciseAngina ==
    Run([widgets EXCEPT !.exercise_angina = ~@], FALSE)

SetMajorVessels(values) ==
    \E v \in values \ {widgets.major_vessels} :
        Run([widgets EXCEPT !.major_vessels = v], FALSE)

SetThalassemia ==
    \E i \in 1..3 :
        /\ ThalassemiaOptions[i] # widgets.thalassemia
        /\ Run([widgets EXCEPT !.thalassemia = ThalassemiaOptions[i]], FALSE)

ClickAssess ==
    /\ calls < MaxCalls
    /\ Run(widgets, TRUE)

\* The full session: every widget of the form.
Next ==
    \/ SetAge(AgeTiers)
    \/ SetBloodPressure(BloodPressureTiers)
    \/ SetCholesterol(CholesterolTiers)
    \/ SetMaxHeartRate(MaxHeartRateTiers)
    \/ SetStDepression(StDepressionTiers)
    \/ SetChestPain
    \/ SetFastingBloodSugar
    \/ SetExerciseAngina
    \/ SetMajorVessels(MajorVesselsTiers)
    \/ SetThalassemia
    \/ ClickAssess

\* The slider session: the four integer sliders, the rest of the form left
\* at its defaults.
SliderNext ==
    \/ SetAge(AgeValues)
    \/ SetBloodPressure(BloodPressureValues)
    \/ SetCholesterol(CholesterolValues)
    \/ SetMaxHeartRate(MaxHeartRateValues)
    \/ ClickAssess

Spec == Init /\ [][Next]_vars

SliderSpec == Init /\ [][SliderNext]_vars

(***************************************************************************)
(* Properties                                                              *)
(***************************************************************************)
\* x > num/den, the exact rational (x is a multiple of 2^-57, so it exceeds
\* num/den exactly when it exceeds the floor of num/den in those units).
ExceedsDecimal(x, num, den) == FLess(Quotient(num, den).q, x)

\* The ten contributions of an input, each computed from its own field, in
\* the order age, blood pressure, cholesterol, chest pain, fasting blood
\* sugar, exercise angina, ST depression, vessels, thalassemia, heart rate.
Contributions(d) ==
    <<age_factor(d.age),
      blood_pressure_factor(d.blood_pressure),
      cholesterol_factor(d.cholesterol),
      chest_pain_factor(d.chest_pain),
      diabetes_factor(d.diabetes),
      exercise_angina_factor(d.exercise_angina),
      st_depression_factor(d.st_depression),
      vessels_factor(d.vessels),
      thalassemia_factor(d.thalassemia),
      heart_rate_adjustment(d.max_heart_rate)>>

\* ((0 + c[1]) + c[2]) + ... + c[n]
RECURSIVE SumTo(_, _)
SumTo(c, n) == IF n = 0 THEN Zero ELSE FAdd(SumTo(c, n - 1), c[n])

\* C1: after every assessment the score lies in [0, 0.95].
ScoreWithinBounds ==
    assess_clicked =>
        /\ FLeq(Zero, risk_score)
        /\ ~ExceedsDecimal(risk_score, 95, 100)

\* C1 witness: an assessment whose contributions sum to more than 0.95 and
\* whose score is the cap.
ScoreAtCap ==
    /\ assess_clicked
    /\ ExceedsDecimal(SumTo(Contributions(input_data), 10), 95, 100)
    /\ risk_score = Lit095

\* C2: the band shown is HIGH exactly when score > 0.7, MODERATE exactly when
\* 0.3 < score <= 0.7, LOW exactly when score <= 0.3.
BandFromScore ==
    assess_clicked =>
        /\ band \in {"HIGH", "MODERATE", "LOW"}
        /\ band = "HIGH" <=> ExceedsDecimal(risk_score, 7, 10)
        /\ band = "MODERATE" <=> /\ ExceedsDecimal(risk_score, 3, 10)
                                 /\ ~ExceedsDecimal(risk_score, 7, 10)
        /\ band = "LOW" <=> ~ExceedsDecimal(risk_score, 3, 10)

\* C2 witness: a MODERATE assessment in the upper part of its band.
ModerateAboveHalf ==
    /\ assess_clicked
    /\ band = "MODERATE"
    /\ ExceedsDecimal(risk_score, 5, 10)

\* C3: the score is min(0.95, S), S the sum of the ten contributions taken in
\* order, each contribution a non-negative function of its own field.
ContributionSumLaw ==
    assess_clicked =>
        LET c == Contributions(input_data)
        IN  /\ risk_score = FMin(Lit095, SumTo(c, 10))
            /\ \A i \in 1..10 : FLeq(Zero, c[i])

\* C3 witness: an assessment below the cap to which at least five factors
\* contribute.
SeveralFactorsBelowCap ==
    /\ assess_clicked
    /\ FLess(risk_score, Lit095)
    /\ Cardinality({i \in 1..10 : Contributions(input_data)[i] # Zero}) >= 5

\* C4: raising age, blood pressure or cholesterol alone never lowers the
\* score.
Monotonicity ==
    assess_clicked =>
        /\ \A v \in AgeValues :
              v >= input_data.age =>
                  FLeq(risk_score,
                       assess(predictor, [input_data EXCEPT !.age = v]))
        /\ \A v \in BloodPressureValues :
              v >= input_data.blood_pressure =>
                  FLeq(risk_score,
                       assess(predictor,
                              [input_data EXCEPT !.blood_pressure = v]))
        /\ \A v \in CholesterolValues :
              v >= input_data.cholesterol =>
                  FLeq(risk_score,
                       assess(predictor,
                              [input_data EXCEPT !.cholesterol = v]))

\* C4 witness: an assessment at the lowest age tier whose score is strictly
\* below that of the same input at the highest age tier.
AgeRaisesScore ==
    /\ assess_clicked
    /\ input_data.age = 45
    /\ FLess(risk_score, assess(predictor, [input_data EXCEPT !.age = 56]))

\* C5: the chest-pain contribution is 0.10 exactly when the type selected in
\* the form is atypical or non-anginal, and 0 for typical and asymptomatic.
ChestPainRule ==
    Call(predictor.risk_factors.chest_pain, input_data.chest_pain)
        = IF widgets.chest_pain \in {"Atypical Angina", "Non-anginal Pain"}
          THEN Lit01
          ELSE Zero

\* An input that triggers the three middle-tier rules and nothing else.
MiddleTiersOnly(d) ==
    /\ 45 < d.age /\ d.age <= 55
    /\ 130 < d.blood_pressure /\ d.blood_pressure <= 140
    /\ 200 < d.cholesterol /\ d.cholesterol <= 240
    /\ 120 <= d.max_heart_rate /\ d.max_heart_rate <= 180
    /\ d.chest_pain = 0
    /\ ~d.diabetes
    /\ ~d.exercise_angina
    /\ d.st_depression <= 10
    /\ d.vessels = 0
    /\ d.thalassemia = 0

\* C6: an assessment that triggers only the three middle-tier rules scores
\* exactly 0.30 and is shown LOW.
MiddleTiersScoreLow ==
    assess_clicked /\ MiddleTiersOnly(input_data) =>
        /\ risk_score = Lit03
        /\ band = "LOW"

TwoTiers(f, x, lo, hi) ==
    /\ x > hi => f = Lit015
    /\ lo < x /\ x <= hi => f = Lit01
    /\ x <= lo => f = Zero

\* The three rules over every value of their slider's range.
TwoTiersOverRanges ==
    /\ \A x \in AgeDomain : TwoTiers(age_factor(x), x, 45, 55)
    /\ \A x \in BloodPressureDomain :
          TwoTiers(blood_pressure_factor(x), x, 130, 140)
    /\ \A x \in CholesterolDomain :
          TwoTiers(cholesterol_factor(x), x, 200, 240)

\* C8: age, blood pressure and cholesterol contribute 0.15 above the upper
\* threshold, 0.10 above the lower threshold up to and including the upper
\* one, and 0 up to and including the lower one (45/55, 130/140, 200/240):
\* for the values in the form, and for every value of each slider's range.
TierBoundaries ==
    /\ TwoTiers(Call(predictor.risk_factors.age, input_data.age),
                input_data.age, 45, 55)
    /\ TwoTiers(Call(predictor.risk_factors.blood_pressure,
                     input_data.blood_pressure),
                input_data.blood_pressure, 130, 140)
    /\ TwoTiers(Call(predictor.risk_factors.cholesterol,
                     input_data.cholesterol),
                input_data.cholesterol, 200, 240)
    /\ TwoTiersOverRanges

\* C8 witness: an assessment with all three values on their upper threshold.
AllOnUpperThreshold ==
    /\ assess_clicked
    /\ input_data.age = 55
    /\ input_data.blood_pressure = 140
    /\ input_data.cholesterol = 240
    /\ risk_score = SumTo(<<Lit01, Lit01, Lit01>>, 3)

\* What C9 says the heart-rate adjustment of h is.
HeartRateTerm(h) ==
    CASE h < 120 -> Lit01
      [] h > 180 -> Lit005
      [] 120 <= h /\ h <= 180 -> Zero

\* The adjustment over every value of the slider's range.
HeartRateTermOverRange ==
    \A h \in MaxHeartRateDomain : heart_rate_adjustment(h) = HeartRateTerm(h)

\* C9: the adjustment is 0.10 below 120, 0.05 above 180 and 0 from 120 to 180
\* over the whole slider range, and the score is the cap applied to the sum
\* of the nine factor contributions plus that adjustment.
HeartRateAdjustment ==
    /\ HeartRateTermOverRange
    /\ assess_clicked =>
          risk_score =
              FMin(Lit095,
                   FAdd(SumTo(Contributions(input_data), 9),
                        HeartRateTerm(input_data.max_heart_rate)))

\* C9 witness: an assessment whose nine factors stay within the cap and whose
\* heart-rate adjustment takes the sum over it.
AdjustmentReachesCap ==
    /\ assess_clicked
    /\ input_data.max_heart_rate < 120
    /\ ~ExceedsDecimal(SumTo(Contributions(input_data), 9), 95, 100)
    /\ ExceedsDecimal(SumTo(Contributions(input_data), 10), 95, 100)
    /\ risk_score = Lit095

\* The plotted ages are 20, 25, ..., 75.
PlottedAges ==
    /\ Len(base_risk) = 12
    /\ \A i \in 1..12 : ages[i] = 20 + 5 * (i - 1)

\* (age - 20) / 60 * 0.6 for each plotted age: the curve before the
\* presentation constant is applied.
ScaledAges == [i \in 1..12 |-> FMul(TrueDiv(ages[i] - 20, 60), Lit06)]

\* C10 as stated: every plotted value is min(0.05, (age-20)/60 * 0.6), so
\* none exceeds the constant and the value at age 20 is 0.
AgeCurveCapped ==
    /\ PlottedAges
    /\ \A i \in 1..12 :
          /\ base_risk[i] = FMin(Lit005, ScaledAges[i])
          /\ FLeq(base_risk[i], Lit005)
    /\ base_risk[1] = Zero

\* C10 amended: every plotted value is max(0.05, (age-20)/60 * 0.6), so none
\* is below the constant and the value at age 20 is 0.05.
AgeCurveFloored ==
    /\ PlottedAges
    /\ \A i \in 1..12 :
          /\ base_risk[i] = IF FLess(Lit005, ScaledAges[i])
                            THEN ScaledAges[i]
                            ELSE Lit005
          /\ FLeq(Lit005, base_risk[i])
    /\ base_risk[1] = Lit005

\* C10 witness: a rendered curve that starts on the constant and rises
\* above it.
AgeCurveRises ==
    /\ Len(base_risk) = 12
    /\ base_risk[1] = Lit005
    /\ FLess(Lit005, base_risk[12])
    /\ calls >= 1

\* C11: the lifestyle list shown agrees with the band shown for the same
\* score: the immediate-consultation list only with HIGH, the follow-up list
\* only with MODERATE, the routine list only with LOW.
LifestyleAgreesWithBand ==
    assess_clicked =>
        /\ lifestyle = "immediate" => band = "HIGH"
        /\ lifestyle = "follow-up" => band = "MODERATE"
        /\ lifestyle = "routine" => band = "LOW"

====
